---- MODULE Spec2Model ----
(***************************************************************************)
(* Dispute-focus pipeline of the legal case assistant                      *)
(* (src/工程组件/命令系统/identify_disputes.py, case_utils.py and the same   *)
(* functions inlined in src/assistant.py).                                 *)
(*                                                                         *)
(* The state is the filesystem (a map from paths to nodes), a wall clock   *)
(* with second resolution, and the position and local variables of each    *)
(* invocation of identify_dispute_focus.  Two invocations may run at the   *)
(* same time (two operating-system processes started by the operator).     *)
(*                                                                         *)
(* TLA+ strings are ASCII here, so the Chinese path components of the      *)
(* source are written in pinyin; each definition gives the original.       *)
(***************************************************************************)
EXTENDS Integers, Sequences, FiniteSets, TLC

VARIABLES fs, fs0, now, cases_dir, users, run, nruns, wrote, reader, shell

vars == <<fs, fs0, now, cases_dir, users, run, nruns, wrote, reader, shell>>

(***************************************************************************)
(* Bounds of the model.                                                    *)
(***************************************************************************)
\* number of invocations of identify_dispute_focus in one behaviour
MaxRuns == 2
\* the wall clock (seconds within the hour) when the behaviour starts ...
StartClock == 58
\* ... and how many seconds it may advance
ClockSpan == 4
\* longest file content, in bytes, given to read_text_file
MaxLen == 3

Procs == {1, 2}

MaxClock == StartClock + ClockSpan

(***************************************************************************)
(* Path components.                                                        *)
(***************************************************************************)
\* "案件：" (identify_disputes.py:208, case_utils.py:25)
CASE_PREFIX == "anjian:"
\* "案例" (identify_disputes.py:210)
ANLI == "anli"
\* "争议焦点" (identify_disputes.py:226)
FOCUS == "zhengyijiaodian"
\* "案件材料" (identify_disputes.py:239)
MATERIALS == "anjiancailiao"
\* "通用材料" (identify_disputes.py:281)
GENERIC == "tongyongcailiao"
\* "争议焦点分析-" (identify_disputes.py:295)
REPORT_PREFIX == "zhengyijiaodianfenxi-"
\* "AI分析出错" (identify_disputes.py:177)
ERROR_MARKER == "AI fenxi chucuo"

base_dir == <<"base">>

\* os.path.join(base_dir, "工程组件", "争议焦点识别", "index.md")
method_file == base_dir \o <<"gongchengzujian", "zhengyijiaodianshibie", "index.md">>

(***************************************************************************)
(* The filesystem: a function from the paths that exist to their nodes.    *)
(* A path is a sequence of names.  `writer` and `at` are history fields:    *)
(* the invocation that wrote the file last (0 for a file that was there    *)
(* before) and the clock second from which a report's writer took its name.*)
(***************************************************************************)
NoDoc == [case_name |-> "", marker |-> "", error |-> ""]

DirNode == [kind |-> "dir", bytes |-> <<>>, doc |-> NoDoc, readable |-> TRUE, writer |-> 0, at |-> 0]

FileNode(b) == [kind |-> "file", bytes |-> b, doc |-> NoDoc, readable |-> TRUE, writer |-> 0, at |-> 0]

LockedFile(b) == [FileNode(b) EXCEPT !.readable = FALSE]

ReportNode(d, w, t) ==
  [kind |-> "file", bytes |-> <<>>, doc |-> d, readable |-> TRUE, writer |-> w, at |-> t]

exists(f, p) == p \in DOMAIN f

isdir(f, p) == p \in DOMAIN f /\ f[p].kind = "dir"

isfile(f, p) == p \in DOMAIN f /\ f[p].kind = "file"

basename(p) == p[Len(p)]

dirname(p) == SubSeq(p, 1, Len(p) - 1)

Under(p, d) == Len(p) > Len(d) /\ SubSeq(p, 1, Len(d)) = d

Children(f, d) == {p \in DOMAIN f : Len(p) = Len(d) + 1 /\ Under(p, d)}

listdir(f, d) == {basename(p) : p \in Children(f, d)}

Ancestors(p) == {SubSeq(p, 1, k) : k \in 1..Len(p)}

\* os.makedirs(p, exist_ok=True) raises when p, or a directory on the way to
\* it, exists and is no directory
makedirs_raises(f, p) == \E q \in Ancestors(p) : q \in DOMAIN f /\ f[q].kind # "dir"

\* a makedirs that empties the directory it is asked for
makedirs_emptied(f, p) ==
  [q \in (DOMAIN f \ {x \in DOMAIN f : Under(x, p)}) \cup Ancestors(p) |->
     IF q \in DOMAIN f THEN f[q] ELSE DirNode]

makedirs(f, p) == [q \in DOMAIN f \cup Ancestors(p) |-> IF q \in DOMAIN f THEN f[q] ELSE DirNode]

\* open(p, 'w') raises when the directory is missing or p is a directory
open_w_raises(f, p) == ~isdir(f, dirname(p)) \/ isdir(f, p)

\* open(p, 'w') creates the file or truncates the one that is there
open_w(f, p, w, t) ==
  [q \in DOMAIN f \cup {p} |-> IF q = p THEN ReportNode(NoDoc, w, t) ELSE f[q]]

\* f.write(doc) and the close that flushes it
write_doc(f, p, d, w, t) ==
  [q \in DOMAIN f \cup {p} |-> IF q = p THEN ReportNode(d, w, t) ELSE f[q]]

(***************************************************************************)
(* File names and glob patterns.  A name's extension is what follows its   *)
(* last dot; glob.glob(os.path.join(d, "*.txt")) lists the entries of d,   *)
(* of any kind, whose name ends in ".txt".  No name of the model starts    *)
(* with a dot (glob skips those).                                          *)
(***************************************************************************)
Extension == [n \in {"claim.txt", "note.txt", "answer.md", "scan.pdf", "README.md", "index.md"} |->
                CASE n \in {"claim.txt", "note.txt"} -> "txt"
                  [] n \in {"answer.md", "README.md", "index.md"} -> "md"
                  [] OTHER -> "pdf"]

fnmatch(n, ext) == n \in DOMAIN Extension /\ Extension[n] = ext

glob(f, d, ext) == {p \in Children(f, d) : fnmatch(basename(p), ext)}

\* the order in which glob and os.listdir return their results is not
\* specified; the model fixes one
RECURSIVE SetToSeq(_)
SetToSeq(S) == IF S = {} THEN <<>>
               ELSE LET x == CHOOSE y \in S : TRUE IN <<x>> \o SetToSeq(S \ {x})

(***************************************************************************)
(* Decoding.  A file holds bytes; a text is a sequence of code points.     *)
(***************************************************************************)
\* 'A'; the GBK bytes D6 D0 and the UTF-8 bytes E4 B8 AD of U+4E2D; FF
ByteVals == {65, 173, 184, 208, 214, 228, 255}

IsCont(b) == b >= 128 /\ b <= 191

\* codecs utf-8, strict: ok is FALSE where Python raises UnicodeDecodeError
RECURSIVE Utf8Decode(_)
Utf8Decode(bs) ==
  IF bs = <<>> THEN [ok |-> TRUE, text |-> <<>>]
  ELSE LET b == bs[1]
           n == Len(bs)
           rest(k) == Utf8Decode(SubSeq(bs, k + 1, n))
           cons(cp, k) == [ok |-> rest(k).ok, text |-> <<cp>> \o rest(k).text]
           bad == [ok |-> FALSE, text |-> <<>>]
       IN  IF b < 128 THEN cons(b, 1)
           ELSE IF b >= 194 /\ b <= 223
             THEN IF n >= 2 /\ IsCont(bs[2])
                  THEN cons((b - 192) * 64 + (bs[2] - 128), 2) ELSE bad
           ELSE IF b >= 224 /\ b <= 239
             THEN IF n >= 3 /\ IsCont(bs[2]) /\ IsCont(bs[3])
                     /\ (b = 224 => bs[2] >= 160) /\ (b = 237 => bs[2] <= 159)
                  THEN cons((b - 224) * 4096 + (bs[2] - 128) * 64 + (bs[3] - 128), 3) ELSE bad
           ELSE IF b >= 240 /\ b <= 244
             THEN IF n >= 4 /\ IsCont(bs[2]) /\ IsCont(bs[3]) /\ IsCont(bs[4])
                     /\ (b = 240 => bs[2] >= 144) /\ (b = 244 => bs[2] <= 143)
                  THEN cons((b - 240) * 262144 + (bs[2] - 128) * 4096
                            + (bs[3] - 128) * 64 + (bs[4] - 128), 4) ELSE bad
           ELSE bad

\* the code point the GBK table gives a lead/trail pair: D6 D0 is U+4E2D; the
\* rest of the table is kept abstract, one code per pair
GbkCodePoint(l, t) == IF l = 214 /\ t = 208 THEN 20013 ELSE 1000000 + l * 256 + t

\* lead AA..AF or F8..FE with trail A1..FE is the user-defined area, which
\* Python's gbk codec does not decode
GbkAssigned(l, t) == ~(((l >= 170 /\ l <= 175) \/ (l >= 248 /\ l <= 254)) /\ t >= 161)

\* codecs gbk, strict
RECURSIVE GbkDecode(_)
GbkDecode(bs) ==
  IF bs = <<>> THEN [ok |-> TRUE, text |-> <<>>]
  ELSE LET b == bs[1]
           n == Len(bs)
           rest(k) == GbkDecode(SubSeq(bs, k + 1, n))
           cons(cp, k) == [ok |-> rest(k).ok, text |-> <<cp>> \o rest(k).text]
           bad == [ok |-> FALSE, text |-> <<>>]
       IN  IF b < 128 THEN cons(b, 1)
           ELSE IF b >= 129 /\ b <= 254
             THEN IF n >= 2 /\ bs[2] >= 64 /\ bs[2] <= 254 /\ bs[2] # 127
                     /\ GbkAssigned(b, bs[2])
                  THEN cons(GbkCodePoint(b, bs[2]), 2) ELSE bad
           ELSE bad

(***************************************************************************)
(* read_text_file.  What it returns is a Python str; the model keeps the   *)
(* three shapes the f-strings give it apart:                               *)
(*   text          the decoded content                                     *)
(*   unreadable    "[无法读取文件: <name>]"                                  *)
(*   read_error    "[读取文件错误: <name> - <error>]"                        *)
(* io = <<io1, io2>> is what the environment does to the first and to the  *)
(* second open-and-read: "ok", or the OSError it raises.                   *)
(***************************************************************************)
OSErrors == {"EIO"}

IoOutcomes == {"ok"} \cup OSErrors

Text(t) == [kind |-> "text", text |-> t, name |-> "", msg |-> ""]

Unreadable(n) == [kind |-> "unreadable", text |-> <<>>, name |-> n, msg |-> ""]

ReadError(n, e) == [kind |-> "read_error", text |-> <<>>, name |-> n, msg |-> e]

\* open(file_path, 'r', encoding=...) and f.read(): the OSError raised, or "ok"
open_r(f, p, io) ==
  IF ~exists(f, p) THEN "ENOENT"
  ELSE IF isdir(f, p) THEN "EISDIR"
  ELSE IF ~f[p].readable THEN "EACCES"
  ELSE io

read_text_file_gbk_first(f, file_path, io) ==
  LET n == basename(file_path)
      e1 == open_r(f, file_path, io[1])
  IN  IF e1 # "ok" THEN ReadError(n, e1)
      ELSE LET g == GbkDecode(f[file_path].bytes)
           IN  IF g.ok THEN Text(g.text)
               ELSE LET e2 == open_r(f, file_path, io[2])
                        u == Utf8Decode(f[file_path].bytes)
                    IN  IF e2 = "ok" /\ u.ok THEN Text(u.text) ELSE Unreadable(n)

read_text_file(f, file_path, io) ==
  LET n == basename(file_path)
      e1 == open_r(f, file_path, io[1])
  IN  IF e1 # "ok" THEN ReadError(n, e1)
      ELSE LET u == Utf8Decode(f[file_path].bytes)
           IN  IF u.ok THEN Text(u.text)
               ELSE LET e2 == open_r(f, file_path, io[2])
                        g == GbkDecode(f[file_path].bytes)
                    IN  IF e2 = "ok" /\ g.ok THEN Text(g.text) ELSE Unreadable(n)

\* `if content:` - the empty string is false
Truthy(c) == ~(c.kind = "text" /\ c.text = <<>>)

(***************************************************************************)
(* Case resolution.  None is the empty path: `if not case_dir` is true of  *)
(* it as it is of Python's None.                                           *)
(***************************************************************************)
None == <<>>

possible_paths(base, cases, case_name) ==
  << cases \o <<CASE_PREFIX \o case_name>>,
     cases \o <<case_name>>,
     base \o <<ANLI, case_name>> >>

RECURSIVE FirstDir(_, _)
FirstDir(f, paths) ==
  IF paths = <<>> THEN None
  ELSE IF isdir(f, Head(paths)) THEN Head(paths)
  ELSE FirstDir(f, Tail(paths))

\* the bare name is tried before the prefixed one
get_case_path_bare_first(f, base, cases, case_name) ==
  LET pp == possible_paths(base, cases, case_name)
  IN  FirstDir(f, <<pp[2], pp[1], pp[3]>>)

get_case_path(f, base, cases, case_name) ==
  FirstDir(f, possible_paths(base, cases, case_name))

(***************************************************************************)
(* Material collection (identify_disputes.py:244-288).                     *)
(***************************************************************************)
NoSources == [d \in {} |-> <<>>]

\* found_files for '*.txt' alone
found_files_txt_only(f, d) == SetToSeq(glob(f, d, "txt"))

\* found_files for '*.txt', then for '*.md'
found_files(f, d) == SetToSeq(glob(f, d, "txt")) \o SetToSeq(glob(f, d, "md"))

\* a content record for every file, the empty ones too
RECURSIVE contents_of_keep_empty(_, _, _)
contents_of_keep_empty(f, label, files) ==
  IF files = <<>> THEN <<>>
  ELSE LET content == read_text_file(f, Head(files), <<"ok", "ok">>)
           rec == [source |-> label, name |-> basename(Head(files)), content |-> content]
       IN  <<rec>> \o contents_of_keep_empty(f, label, Tail(files))

\* the content records of `files` under the label: those read_text_file
\* returns a true (non-empty) string for
RECURSIVE contents_of(_, _, _)
contents_of(f, label, files) ==
  IF files = <<>> THEN <<>>
  ELSE LET content == read_text_file(f, Head(files), <<"ok", "ok">>)
           rec == [source |-> label, name |-> basename(Head(files)), content |-> content]
       IN  (IF Truthy(content) THEN <<rec>> ELSE <<>>) \o contents_of(f, label, Tail(files))

subdirs_of(f, materials_dir) == {d \in listdir(f, materials_dir) : isdir(f, materials_dir \o <<d>>)}

\* the loop over the party subdirectories
RECURSIVE collect_multi(_, _, _, _)
collect_multi(f, materials_dir, subdirs, acc) ==
  IF subdirs = <<>> THEN acc
  ELSE LET subdir == Head(subdirs)
           files == found_files(f, materials_dir \o <<subdir>>)
           contents == contents_of(f, subdir, files)
           next == [files |-> acc.files \o files,
                    sources |-> IF files # <<>>
                                THEN [d \in DOMAIN acc.sources \cup {subdir} |->
                                        IF d = subdir THEN files ELSE acc.sources[d]]
                                ELSE acc.sources,
                    contents |-> IF files # <<>> THEN acc.contents \o contents
                                 ELSE acc.contents]
       IN  collect_multi(f, materials_dir, Tail(subdirs), next)

\* the files directly in the materials directory
collect_single(f, materials_dir) ==
  LET files == found_files(f, materials_dir)
  IN  [files |-> files,
       sources |-> IF files # <<>> THEN [d \in {GENERIC} |-> files] ELSE NoSources,
       contents |-> contents_of(f, "cailiao", files)]

\* a discovery that turns to the top-level files when the subdirectories
\* have none
collect_materials_fallback(f, materials_dir) ==
  LET subdirs == subdirs_of(f, materials_dir)
      multi == collect_multi(f, materials_dir, SetToSeq(subdirs),
                             [files |-> <<>>, sources |-> NoSources, contents |-> <<>>])
  IN  IF subdirs # {} /\ multi.files # <<>> THEN multi
      ELSE collect_single(f, materials_dir)

collect_materials(f, materials_dir) ==
  LET subdirs == subdirs_of(f, materials_dir)
  IN  IF subdirs # {}
      THEN collect_multi(f, materials_dir, SetToSeq(subdirs),
                         [files |-> <<>>, sources |-> NoSources, contents |-> <<>>])
      ELSE collect_single(f, materials_dir)

(***************************************************************************)
(* analyze_with_ai (identify_disputes.py:36-188).  The report is kept as   *)
(* the fields its f-string is built from: the case name of the title and   *)
(* of the "案件名称" line, the error marker of the title and the error text. *)
(* The date line is left out: nothing below depends on it.                 *)
(***************************************************************************)
\* what the generation call raises when it fails
GenErrors == {"timeout"}

\* time.sleep(2)
SleepSeconds == 2

\* lines 52-67
assemble_prompt(case_name, materials, prompt_template) ==
  [case_name |-> case_name, template |-> prompt_template, material_content |-> materials]

\* lines 89-172
analysis_report(case_name) == [case_name |-> case_name, marker |-> "", error |-> ""]

\* the fallback report without the case name
fallback_report_no_name(case_name, e) == [case_name |-> "", marker |-> ERROR_MARKER, error |-> e]

\* lines 174-188
fallback_report(case_name, e) == [case_name |-> case_name, marker |-> ERROR_MARKER, error |-> e]

(***************************************************************************)
(* The report's file name (identify_disputes.py:294-295).  The clock       *)
(* counts the seconds of one hour of 2024-01-01 10:xx:xx local time.       *)
(***************************************************************************)
Pad2(n) == IF n < 10 THEN "0" \o ToString(n) ELSE ToString(n)

\* the time stamp without its seconds: "%Y%m%d%H%M"
strftime_minutes(t) == "2024010110" \o Pad2((t \div 60) % 60)

\* datetime.datetime.now().strftime("%Y%m%d%H%M%S") at clock value t
strftime(t) == "2024010110" \o Pad2((t \div 60) % 60) \o Pad2(t % 60)

\* one name for every report
report_name_fixed(t) == REPORT_PREFIX \o ".md"

report_name(t) == REPORT_PREFIX \o strftime(t) \o ".md"

(***************************************************************************)
(* The initial filesystems.  A scenario names where the case "jia" lies,   *)
(* what its materials directory holds, what is at the dispute-focus path   *)
(* and whether the methodology file is there.                              *)
(***************************************************************************)
CaseNames == {"jia", ""}

U8 == <<228, 184, 173>>

GB == <<214, 208>>

Layouts == {"none", "file", "empty", "single", "multi", "multi_top", "multi_blank",
            "single_bad", "single_blank"}

\* the entries below a case directory c
MaterialTree(c, layout) ==
  LET m == c \o <<MATERIALS>>
  IN  CASE layout = "none" -> (c \o <<"README.md">>) :> FileNode(U8)
        [] layout = "file" -> m :> FileNode(<<65>>)
        [] layout = "empty" -> m :> DirNode
        [] layout = "single" ->
             (m :> DirNode) @@ ((m \o <<"claim.txt">>) :> FileNode(U8))
             @@ ((m \o <<"answer.md">>) :> FileNode(GB))
             @@ ((m \o <<"scan.pdf">>) :> FileNode(<<255>>))
        [] layout = "multi" ->
             (m :> DirNode) @@ ((m \o <<"yuangao">>) :> DirNode)
             @@ ((m \o <<"beigao">>) :> DirNode)
             @@ ((m \o <<"yuangao", "claim.txt">>) :> FileNode(U8))
             @@ ((m \o <<"yuangao", "note.txt">>) :> FileNode(<<65>>))
             @@ ((m \o <<"beigao", "answer.md">>) :> FileNode(GB))
        [] layout = "multi_top" ->
             (m :> DirNode) @@ ((m \o <<"yuangao">>) :> DirNode)
             @@ ((m \o <<"yuangao", "scan.pdf">>) :> FileNode(<<255>>))
             @@ ((m \o <<"claim.txt">>) :> FileNode(U8))
        [] layout = "multi_blank" ->
             (m :> DirNode) @@ ((m \o <<"yuangao">>) :> DirNode)
             @@ ((m \o <<"beigao">>) :> DirNode)
             @@ ((m \o <<"yuangao", "claim.txt">>) :> FileNode(<<>>))
             @@ ((m \o <<"note.txt">>) :> FileNode(<<65>>))
        [] layout = "single_bad" ->
             (m :> DirNode) @@ ((m \o <<"claim.txt">>) :> FileNode(<<255>>))
             @@ ((m \o <<"note.txt">>) :> LockedFile(<<65>>))
        [] OTHER ->
             (m :> DirNode) @@ ((m \o <<"claim.txt">>) :> FileNode(<<>>))

\* what is at <case>/争议焦点 before the first invocation: nothing, an empty
\* directory, a directory with a report of ten seconds ago, one with a report
\* written within the current second, or a regular file
FocusKinds == {"absent", "empty", "old", "fresh", "file"}

OldDoc == [case_name |-> "jia", marker |-> "", error |-> ""]

FocusTree(c, kind) ==
  LET d == c \o <<FOCUS>>
  IN  CASE kind = "absent" -> <<>>
        [] kind = "empty" -> d :> DirNode
        [] kind = "old" ->
             (d :> DirNode) @@ ((d \o <<report_name(StartClock - 10)>>) :> ReportNode(OldDoc, 0, StartClock - 10))
        [] kind = "fresh" ->
             (d :> DirNode) @@ ((d \o <<report_name(StartClock)>>) :> ReportNode(OldDoc, 0, StartClock))
        [] OTHER -> d :> FileNode(<<65>>)

MethodKinds == {"ok", "absent", "invalid"}

MethodTree(kind) ==
  (base_dir :> DirNode) @@ (dirname(dirname(method_file)) :> DirNode)
  @@ (dirname(method_file) :> DirNode)
  @@ (CASE kind = "ok" -> method_file :> FileNode(<<65>>)
        [] kind = "invalid" -> method_file :> FileNode(<<255>>)
        [] OTHER -> <<>>)

\* the case directory of variant i (1: with the prefix, 2: bare, 3: under
\* <base_dir>/案例): a directory with the layout, or a regular file
VariantTree(cases, i, kind, layout, focus) ==
  LET c == possible_paths(base_dir, cases, "jia")[i]
  IN  CASE kind = "dir" -> (c :> DirNode) @@ MaterialTree(c, layout) @@ FocusTree(c, focus)
        [] kind = "file" -> c :> FileNode(<<65>>)
        [] OTHER -> <<>>

\* variants[i] is "dir", "file" or "absent"; the first variant that is a
\* directory carries the scenario's layout, the others the "multi" one
FirstDirVariant(variants) ==
  IF \E i \in 1..3 : variants[i] = "dir"
  THEN CHOOSE i \in 1..3 : variants[i] = "dir" /\ \A j \in 1..(i - 1) : variants[j] # "dir"
  ELSE 0

BuildFs(sc) ==
  LET first == FirstDirVariant(sc.variants)
      tree(i) == VariantTree(sc.cases, i, sc.variants[i],
                             IF i = first THEN sc.layout ELSE "multi",
                             IF i = first THEN sc.focus ELSE "absent")
  IN  tree(1) @@ tree(2) @@ tree(3)
      @@ (sc.cases :> DirNode) @@ ((base_dir \o <<ANLI>>) :> DirNode)
      @@ MethodTree(sc.method)

Scenario(cases, variants, layout, focus, method, who) ==
  [cases |-> cases, variants |-> variants, layout |-> layout, focus |-> focus, method |-> method,
   users |-> who]

VariantKinds == {"absent", "dir"}

\* In most scenarios one process runs the invocations one after the other; in
\* the one whose case has no dispute-focus directory yet, two processes run
\* them at the same time.
Scenarios ==
  \* where the case lies
  {Scenario(<<"cases">>, <<a, b, c>>, "empty", "absent", "ok", {1}) :
     a \in VariantKinds, b \in VariantKinds, c \in VariantKinds}
  \cup {Scenario(<<"cases">>, <<"file", b, "absent">>, "empty", "absent", "ok", {1}) :
          b \in VariantKinds}
  \* cases_dir is <base_dir>/案例, as in assistant.py: variants 2 and 3 are one path
  \cup {Scenario(base_dir \o <<ANLI>>, <<a, b, b>>, "empty", "absent", "ok", {1}) :
          a \in VariantKinds, b \in VariantKinds}
  \* what the materials directory holds
  \cup {Scenario(<<"cases">>, <<"dir", "absent", "absent">>, l, "absent", "ok", {1}) : l \in Layouts}
  \* the methodology file
  \cup {Scenario(<<"cases">>, <<"dir", "absent", "absent">>, "single", "absent", m, {1}) :
          m \in MethodKinds}
  \* what is at the dispute-focus path
  \cup {Scenario(<<"cases">>, <<"absent", "dir", "dir">>, "multi", k, "ok",
                 IF k = "absent" THEN Procs ELSE {1}) : k \in FocusKinds}

(***************************************************************************)
(* One invocation of identify_dispute_focus.                               *)
(***************************************************************************)
Terminal == {"Done", "Aborted", "Raised"}

NoCollected == [files |-> <<>>, sources |-> NoSources, contents |-> <<>>]

NoPrompt == [case_name |-> "", template |-> <<>>, material_content |-> <<>>]

\* id: the invocation's number (history).  result: what it returned
\* ("True", "False"), "raised" when an exception left it, "" while it runs.
\* reason: the error line it printed, or the exception, and raised_at the
\* step that raised it.  invoked: whether analyze_with_ai was called.
\* gen_error: what the generation call raised.
IdleRun ==
  [pc |-> "idle", id |-> 0, case_name |-> "", case_dir |-> None, focus_dir |-> None,
   method_content |-> <<>>, collected |-> NoCollected, prompt |-> NoPrompt,
   invoked |-> FALSE, gen_error |-> "", wake |-> 0, ai_analysis |-> NoDoc,
   stamped |-> 0, focus_file |-> None, result |-> "", reason |-> "", raised_at |-> ""]

Returns(r, value, why) == [r EXCEPT !.pc = IF value = "True" THEN "Done" ELSE "Aborted",
                                    !.result = value, !.reason = why]

Raises(r, e) ==
  [r EXCEPT !.pc = "Raised", !.result = "raised", !.reason = e, !.raised_at = r.pc]

\* the last create_case or get_case_path call: its name, what it returned
\* ("True", "False", "path", "None", or "raised") and the path returned
IdleShell == [op |-> "idle", name |-> "", result |-> "", path |-> None]

Init ==
  /\ \E sc \in Scenarios : fs = BuildFs(sc) /\ cases_dir = sc.cases /\ users = sc.users
  /\ fs0 = fs
  /\ now = StartClock
  /\ run = [p \in Procs |-> IdleRun]
  /\ nruns = 0
  /\ wrote = {}
  /\ reader = [pc |-> "idle", io |-> <<"ok", "ok">>, result |-> Text(<<>>)]
  /\ shell = IdleShell

\* the operator enters a command naming a case
Call(p) ==
  /\ p \in users
  /\ run[p].pc \in Terminal \cup {"idle"}
  /\ nruns < MaxRuns
  \* the two processes are alike: the first invocation is process 1's
  /\ nruns = 0 => p = 1
  /\ \E n \in CaseNames :
       run' = [run EXCEPT ![p] = [IdleRun EXCEPT !.pc = "ResolvingCase", !.id = nruns + 1,
                                                !.case_name = n]]
  /\ nruns' = nruns + 1
  /\ UNCHANGED <<fs, fs0, now, cases_dir, users, wrote, reader, shell>>

\* identify_disputes.py:202-223
ResolveCase(p) ==
  /\ run[p].pc = "ResolvingCase"
  /\ LET r == run[p]
         case_dir == get_case_path(fs, base_dir, cases_dir, r.case_name)
     IN  run' = [run EXCEPT ![p] =
                   IF r.case_name = "" THEN Returns(r, "False", "missing case name")
                   ELSE IF case_dir = None THEN Returns(r, "False", "case not found")
                   ELSE [r EXCEPT !.pc = "CreatingFocusDir", !.case_dir = case_dir]]
  /\ UNCHANGED <<fs, fs0, now, cases_dir, users, nruns, wrote, reader, shell>>

\* identify_disputes.py:225-227
CreateFocusDir(p) ==
  /\ run[p].pc = "CreatingFocusDir"
  /\ LET r == run[p]
         focus_dir == r.case_dir \o <<FOCUS>>
     IN  \/ /\ ~makedirs_raises(fs, focus_dir)
            /\ fs' = makedirs(fs, focus_dir)
            /\ run' = [run EXCEPT ![p] = [r EXCEPT !.pc = "LoadingMethod", !.focus_dir = focus_dir]]
         \/ /\ makedirs_raises(fs, focus_dir)
            /\ run' = [run EXCEPT ![p] = Raises(r, "FileExistsError")]
            /\ UNCHANGED fs
         \/ /\ \E e \in OSErrors : run' = [run EXCEPT ![p] = Raises(r, e)]
            /\ UNCHANGED fs
  /\ UNCHANGED <<fs0, now, cases_dir, users, nruns, wrote, reader, shell>>

\* identify_disputes.py:229-236
LoadMethod(p) ==
  /\ run[p].pc = "LoadingMethod"
  /\ LET r == run[p]
         u == Utf8Decode(fs[method_file].bytes)
     IN  run' = [run EXCEPT ![p] =
                   IF ~isfile(fs, method_file) THEN Returns(r, "False", "methodology file not found")
                   ELSE IF open_r(fs, method_file, "ok") # "ok"
                     THEN Raises(r, open_r(fs, method_file, "ok"))
                   ELSE IF ~u.ok THEN Raises(r, "UnicodeDecodeError")
                   ELSE [r EXCEPT !.pc = "CollectingMaterials", !.method_content = u.text]]
  /\ UNCHANGED <<fs, fs0, now, cases_dir, users, nruns, wrote, reader, shell>>

\* identify_disputes.py:238-288
CollectMaterials(p) ==
  /\ run[p].pc = "CollectingMaterials"
  /\ LET r == run[p]
         materials_dir == r.case_dir \o <<MATERIALS>>
         c == collect_materials(fs, materials_dir)
     IN  run' = [run EXCEPT ![p] =
                   IF ~isdir(fs, materials_dir)
                     THEN Returns(r, "False", "materials directory not found")
                   ELSE IF c.files = <<>>
                     THEN Returns([r EXCEPT !.collected = c], "False", "no material files")
                   ELSE [r EXCEPT !.pc = "AssemblingPrompt", !.collected = c]]
  /\ UNCHANGED <<fs, fs0, now, cases_dir, users, nruns, wrote, reader, shell>>

\* identify_disputes.py:291, 48-67: analyze_with_ai is entered and builds the prompt
AssemblePrompt(p) ==
  /\ run[p].pc = "AssemblingPrompt"
  /\ LET r == run[p]
     IN  run' = [run EXCEPT ![p] =
                   [r EXCEPT !.pc = "Generating", !.invoked = TRUE,
                             !.prompt = assemble_prompt(r.case_name, r.collected.contents,
                                                        r.method_content)]]
  /\ UNCHANGED <<fs, fs0, now, cases_dir, users, nruns, wrote, reader, shell>>

\* identify_disputes.py:69-87, 174-188: the generation call.  It either goes
\* on to the two-second sleep or raises, and the except clause returns the
\* fallback report.
Generate(p) ==
  /\ run[p].pc = "Generating"
  /\ LET r == run[p]
     IN  \/ /\ now + SleepSeconds <= MaxClock
            /\ run' = [run EXCEPT ![p] = [r EXCEPT !.pc = "Sleeping", !.wake = now + SleepSeconds]]
         \/ \E e \in GenErrors :
              run' = [run EXCEPT ![p] =
                        [r EXCEPT !.pc = "WritingReport", !.gen_error = e,
                                  !.ai_analysis = fallback_report(r.case_name, e)]]
  /\ UNCHANGED <<fs, fs0, now, cases_dir, users, nruns, wrote, reader, shell>>

\* identify_disputes.py:87-172: the sleep is over and the report is returned
GenerateReturn(p) ==
  /\ run[p].pc = "Sleeping"
  /\ now >= run[p].wake
  /\ LET r == run[p]
     IN  run' = [run EXCEPT ![p] = [r EXCEPT !.pc = "WritingReport",
                                             !.ai_analysis = analysis_report(r.case_name)]]
  /\ UNCHANGED <<fs, fs0, now, cases_dir, users, nruns, wrote, reader, shell>>

\* identify_disputes.py:294-295
StampReport(p) ==
  /\ run[p].pc = "WritingReport"
  /\ LET r == run[p]
     IN  run' = [run EXCEPT ![p] = [r EXCEPT !.pc = "Writing", !.stamped = now,
                                             !.focus_file = r.focus_dir \o <<report_name(now)>>]]
  /\ UNCHANGED <<fs, fs0, now, cases_dir, users, nruns, wrote, reader, shell>>

\* identify_disputes.py:297-302
WriteReport(p) ==
  /\ run[p].pc = "Writing"
  /\ LET r == run[p]
     IN  \/ /\ ~open_w_raises(fs, r.focus_file)
            /\ fs' = write_doc(fs, r.focus_file, r.ai_analysis, r.id, r.stamped)
            /\ run' = [run EXCEPT ![p] = Returns(r, "True", "")]
            /\ wrote' = wrote \cup {[id |-> r.id, at |-> r.stamped, file |-> r.focus_file,
                                     doc |-> r.ai_analysis]}
         \/ \* open() raises: nothing is created
            /\ \E e \in OSErrors : run' = [run EXCEPT ![p] = Raises(r, e)]
            /\ UNCHANGED <<fs, wrote>>
         \/ \* f.write() raises after open() created or truncated the file
            /\ ~open_w_raises(fs, r.focus_file)
            /\ fs' = open_w(fs, r.focus_file, r.id, r.stamped)
            /\ \E e \in OSErrors : run' = [run EXCEPT ![p] = Raises(r, e)]
            /\ UNCHANGED wrote
  /\ UNCHANGED <<fs0, now, cases_dir, users, nruns, reader, shell>>

\* a second passes.  Only the generation call, the sleep and the time stamp
\* observe the clock, so seconds pass while an invocation is at one of them.
Tick ==
  /\ now < MaxClock
  /\ \E p \in Procs : run[p].pc \in {"Generating", "Sleeping", "WritingReport"}
  /\ now' = now + 1
  /\ UNCHANGED <<fs, fs0, cases_dir, users, run, nruns, wrote, reader, shell>>

Step(p) ==
  \/ Call(p)
  \/ ResolveCase(p)
  \/ CreateFocusDir(p)
  \/ LoadMethod(p)
  \/ CollectMaterials(p)
  \/ AssemblePrompt(p)
  \/ Generate(p)
  \/ GenerateReturn(p)
  \/ StampReport(p)
  \/ WriteReport(p)

Next == Tick \/ \E p \in Procs : Step(p)

Spec == Init /\ [][Next]_vars

FairSpec == Spec /\ WF_vars(Tick) /\ \A p \in Procs : WF_vars(Step(p))

(***************************************************************************)
(* read_text_file on its own: one file of any bytes, or unreadable, a       *)
(* directory, or missing, and the environment's outcome of either open.    *)
(***************************************************************************)
ReadPath == base_dir \o <<"claim.txt">>

ByteSeqs == UNION {[1..n -> ByteVals] : n \in 0..MaxLen}

ReadNodes == {FileNode(b) : b \in ByteSeqs} \cup {LockedFile(<<65>>), DirNode}

InitRead ==
  /\ \/ fs = (base_dir :> DirNode)
     \/ \E n \in ReadNodes : fs = (base_dir :> DirNode) @@ (ReadPath :> n)
  /\ fs0 = fs
  /\ now = StartClock
  /\ cases_dir = <<"cases">>
  /\ users = {}
  /\ run = [p \in Procs |-> IdleRun]
  /\ nruns = 0
  /\ wrote = {}
  /\ reader = [pc |-> "idle", io |-> <<"ok", "ok">>, result |-> Text(<<>>)]
  /\ shell = IdleShell

ReadFile ==
  /\ reader.pc = "idle"
  /\ \E io \in IoOutcomes \X IoOutcomes :
       reader' = [pc |-> "done", io |-> io, result |-> read_text_file(fs, ReadPath, io)]
  /\ UNCHANGED <<fs, fs0, now, cases_dir, users, run, nruns, wrote, shell>>

NextRead == ReadFile

SpecRead == InitRead /\ [][NextRead]_vars

(***************************************************************************)
(* create_case (create_case.py:13-71, assistant.py:83-131) and the case    *)
(* resolution on their own: the operator creates and looks up cases.       *)
(***************************************************************************)
\* "示例案件"
TEMPLATE_NAME == "shilianjian"

\* the README of the template and the one create_case rewrites: the case
\* name and the case number in it
TemplateReadme == [case_name |-> TEMPLATE_NAME, marker |-> "CASE001", error |-> ""]

ReadmeNode(b, d) == [FileNode(b) EXCEPT !.doc = d]

\* shutil.copytree(src, dst) raises when src is no directory
copytree_raises(f, src) == ~isdir(f, src)

\* shutil.copytree(src, dst), dst not there: src and all below it, at dst
copytree(f, src, dst) ==
  LET moved(x) == dst \o SubSeq(x, Len(src) + 1, Len(x))
      back(q) == src \o SubSeq(q, Len(dst) + 1, Len(q))
      copied == {moved(x) : x \in {src} \cup {y \in DOMAIN f : Under(y, src)}}
  IN  [q \in DOMAIN f \cup copied |-> IF q \in DOMAIN f THEN f[q] ELSE f[back(q)]]

\* create_case.py:25-71.  io is what the environment does to the copy: "ok",
\* or the OSError it raises once the new directory is made.
create_case(f, base, cases, case_name, t, io) ==
  IF case_name = "" THEN [fs |-> f, result |-> "False"]
  ELSE IF makedirs_raises(f, cases) THEN [fs |-> f, result |-> "raised"]
  ELSE
    LET f1 == makedirs(f, cases)
        template_dir == cases \o <<CASE_PREFIX \o TEMPLATE_NAME>>
        new_case_dir == cases \o <<CASE_PREFIX \o case_name>>
        readme_file == new_case_dir \o <<"README.md">>
    IN  IF exists(f1, new_case_dir) THEN [fs |-> f1, result |-> "False"]
        ELSE IF copytree_raises(f1, template_dir) THEN [fs |-> f1, result |-> "False"]
        ELSE IF io # "ok" THEN [fs |-> makedirs(f1, new_case_dir), result |-> "False"]
        ELSE
          LET f2 == copytree(f1, template_dir, new_case_dir)
          IN  IF ~isfile(f2, readme_file) THEN [fs |-> f2, result |-> "True"]
              ELSE IF open_r(f2, readme_file, "ok") # "ok" \/ ~Utf8Decode(f2[readme_file].bytes).ok
                THEN [fs |-> f2, result |-> "False"]
              ELSE [fs |-> [f2 EXCEPT ![readme_file].doc =
                                 [case_name |-> case_name, marker |-> "CASE" \o ToString(t),
                                  error |-> ""]],
                    result |-> "True"]

\* the names the operator gives: a case, the same with the prefix typed, the
\* template's, and none
CallNames == {"jia", CASE_PREFIX \o "jia", TEMPLATE_NAME, ""}

TemplateKinds == {"dir", "bad_readme", "no_readme", "file", "absent"}

TemplateTree(cases, kind) ==
  LET d == cases \o <<CASE_PREFIX \o TEMPLATE_NAME>>
      body == (d :> DirNode) @@ ((d \o <<MATERIALS>>) :> DirNode)
  IN  CASE kind = "dir" -> body @@ ((d \o <<"README.md">>) :> ReadmeNode(<<65>>, TemplateReadme))
        [] kind = "bad_readme" -> body @@ ((d \o <<"README.md">>) :> ReadmeNode(<<255>>, TemplateReadme))
        [] kind = "no_readme" -> body
        [] kind = "file" -> d :> FileNode(<<65>>)
        [] OTHER -> <<>>

\* what lies at the three variants of "jia" (a directory, a regular file or
\* nothing) and at the template's place; the cases directory is apart from
\* <base_dir>/案例, or is it (assistant.py:24), or is not there yet
CaseFs(cases, there, variants, template) ==
  (base_dir :> DirNode) @@ ((base_dir \o <<ANLI>>) :> DirNode)
  @@ (IF there THEN (cases :> DirNode) @@ TemplateTree(cases, template) ELSE <<>>)
  @@ LET at(i) == possible_paths(base_dir, cases, "jia")[i]
         tree(i) == CASE variants[i] = "dir" /\ (there \/ i = 3) ->
                            (at(i) :> DirNode) @@ ((at(i) \o <<MATERIALS>>) :> DirNode)
                      [] variants[i] = "file" /\ (there \/ i = 3) -> at(i) :> FileNode(<<65>>)
                      [] OTHER -> <<>>
     IN  tree(1) @@ tree(2) @@ tree(3)

InitCase ==
  /\ \E cases \in {<<"cases">>, base_dir \o <<ANLI>>}, there \in BOOLEAN,
        a \in {"absent", "dir", "file"}, b \in VariantKinds, c \in VariantKinds,
        t \in TemplateKinds :
       /\ there \/ cases = <<"cases">>
       /\ cases_dir = cases
       /\ fs = CaseFs(cases, there, <<a, b, c>>, t)
  /\ fs0 = fs
  /\ now = StartClock
  /\ users = {}
  /\ run = [p \in Procs |-> IdleRun]
  /\ nruns = 0
  /\ wrote = {}
  /\ reader = [pc |-> "idle", io |-> <<"ok", "ok">>, result |-> Text(<<>>)]
  /\ shell = IdleShell

\* the operator's "创建案件" command
CreateCase ==
  /\ \E n \in CallNames, io \in IoOutcomes :
       LET r == create_case(fs, base_dir, cases_dir, n, now, io)
       IN  /\ fs' = r.fs
           /\ shell' = [op |-> "create_case", name |-> n, result |-> r.result, path |-> None]
  /\ UNCHANGED <<fs0, now, cases_dir, users, run, nruns, wrote, reader>>

\* a command that looks a case up
GetCasePath ==
  /\ \E n \in CallNames \ {""} :
       LET path == get_case_path(fs, base_dir, cases_dir, n)
       IN  shell' = [op |-> "get_case_path", name |-> n,
                     result |-> IF path = None THEN "None" ELSE "path", path |-> path]
  /\ UNCHANGED <<fs, fs0, now, cases_dir, users, run, nruns, wrote, reader>>

NextCase == CreateCase \/ GetCasePath

SpecCase == InitCase /\ [][NextCase]_vars

TypeOK ==
  /\ now \in StartClock..MaxClock
  /\ nruns \in 0..MaxRuns
  /\ \A p \in Procs : run[p].pc \in Terminal \cup
       {"idle", "ResolvingCase", "CreatingFocusDir", "LoadingMethod", "CollectingMaterials",
        "AssemblingPrompt", "Generating", "Sleeping", "WritingReport", "Writing"}

(***************************************************************************)
(* Properties.                                                             *)
(***************************************************************************)
FocusDirOf(c) == c \o <<FOCUS>>

\* the entries of directory d that '*.txt' or '*.md' names
TxtMd(f, d) ==
  {q \in Children(f, d) : basename(q) \in DOMAIN Extension
                            /\ Extension[basename(q)] \in {"txt", "md"}}

Variants(n) == possible_paths(base_dir, cases_dir, n)

CaseMissing(n) == \A i \in 1..3 : ~isdir(fs, Variants(n)[i])

\* the first variant of n that is a directory
FirstVariant(n) ==
  Variants(n)[CHOOSE i \in 1..3 : isdir(fs, Variants(n)[i])
                                  /\ \A j \in 1..(i - 1) : ~isdir(fs, Variants(n)[j])]

MethodMissing == ~isfile(fs, method_file)

MaterialsMissing(n) == ~CaseMissing(n) /\ ~isdir(fs, FirstVariant(n) \o <<MATERIALS>>)

NoMaterialFiles(n) ==
  /\ ~CaseMissing(n)
  /\ LET m == FirstVariant(n) \o <<MATERIALS>>
         subs == {q \in Children(fs, m) : isdir(fs, q)}
     IN  /\ isdir(fs, m)
         /\ IF subs # {} THEN \A q \in subs : TxtMd(fs, q) = {} ELSE TxtMd(fs, m) = {}

\* C1 (as stated): once the generation call has failed, the run ends with
\* success, its report file lies in the dispute-focus subdirectory, and the
\* report is the fallback report with the case name, the error marker and the
\* error text.
C1_GenerationFailureAlwaysSucceeds ==
  \A p \in Procs :
    run[p].gen_error # "" /\ run[p].pc \in Terminal =>
      /\ run[p].result = "True"
      /\ run[p].ai_analysis.case_name = run[p].case_name
      /\ run[p].ai_analysis.marker = ERROR_MARKER
      /\ run[p].ai_analysis.error = run[p].gen_error
      /\ isfile(fs, run[p].focus_file)
      /\ dirname(run[p].focus_file) = FocusDirOf(run[p].case_dir)

\* C1 (amended): a failure of the generation call never aborts the run:
\* analyze_with_ai returns the fallback report with the case name, the error
\* marker and the error text, and the run goes on to write it; it ends with
\* success and the report file written in the dispute-focus subdirectory
\* unless writing the file itself raises an I/O error.
C1_GenerationFailureWritesFallback ==
  \A p \in Procs :
    run[p].gen_error # "" =>
      /\ run[p].pc \in {"WritingReport", "Writing", "Done", "Raised"}
      /\ run[p].ai_analysis.case_name = run[p].case_name
      /\ run[p].ai_analysis.case_name # ""
      /\ run[p].ai_analysis.marker = ERROR_MARKER
      /\ run[p].ai_analysis.error = run[p].gen_error
      /\ run[p].pc = "Raised" => run[p].raised_at = "Writing" /\ run[p].reason \in OSErrors
      /\ run[p].pc = "Done" =>
           /\ run[p].result = "True"
           /\ isfile(fs, run[p].focus_file)
           /\ dirname(run[p].focus_file) = FocusDirOf(run[p].case_dir)
           /\ \E w \in wrote : w.id = run[p].id /\ w.file = run[p].focus_file
                                /\ w.doc = run[p].ai_analysis
           /\ fs[run[p].focus_file].writer = run[p].id
                => fs[run[p].focus_file].doc = run[p].ai_analysis

\* a run whose generation call failed has returned success, and its fallback
\* report is in the file
C1_Witness ==
  \E p \in Procs :
    /\ run[p].gen_error # "" /\ run[p].pc = "Done"
    /\ fs[run[p].focus_file].writer = run[p].id
    /\ fs[run[p].focus_file].doc.marker = ERROR_MARKER
    /\ fs[run[p].focus_file].doc.case_name = "jia"

\* C2: a run for which the case directory is not found, the methodology file
\* is missing, the materials subdirectory is missing or no material file is
\* found returns failure, never invokes analyze_with_ai and writes no report.
C2_NotFoundReturnsFailure ==
  \A p \in Procs :
    LET n == run[p].case_name
    IN  /\ run[p].pc \in Terminal /\ n # ""
        /\ CaseMissing(n) \/ MethodMissing \/ MaterialsMissing(n) \/ NoMaterialFiles(n)
        => /\ run[p].result = "False"
           /\ ~run[p].invoked
           /\ \A w \in wrote : w.id # run[p].id

\* what holds of such a run: it does not return success, invokes no generation
\* and writes no report file
C2_NoGenerationNoReport ==
  \A p \in Procs :
    LET n == run[p].case_name
    IN  /\ run[p].pc # "idle" /\ n # ""
        /\ CaseMissing(n) \/ MethodMissing \/ MaterialsMissing(n) \/ NoMaterialFiles(n)
        => /\ run[p].result # "True"
           /\ ~run[p].invoked
           /\ \A w \in wrote : w.id # run[p].id
           /\ \A q \in DOMAIN fs : fs[q].writer # run[p].id

\* C3: case resolution returns the first of the three variants (with the
\* prefix, bare, under <base_dir>/案例) that is an existing directory, and
\* None exactly when none of the three is; the lookup of
\* identify_dispute_focus takes the same directory.
C3_FirstExistingVariant ==
  LET found == get_case_path(fs, base_dir, cases_dir, "jia")
      pp == Variants("jia")
  IN  /\ found = None <=> \A i \in 1..3 : ~isdir(fs, pp[i])
      /\ found # None =>
           \E i \in 1..3 : /\ found = pp[i]
                           /\ isdir(fs, pp[i])
                           /\ \A j \in 1..(i - 1) : ~isdir(fs, pp[j])
      /\ \A p \in Procs :
           /\ run[p].reason = "case not found" => found = None
           /\ run[p].case_dir # None => run[p].case_dir = found

\* a run resolved the case to the bare variant while the variant under
\* <base_dir>/案例 exists too and the prefixed one does not
C3_Witness ==
  \E p \in Procs :
    /\ run[p].pc = "CreatingFocusDir"
    /\ ~isdir(fs, Variants("jia")[1])
    /\ isdir(fs, Variants("jia")[2])
    /\ isdir(fs, Variants("jia")[3])
    /\ Variants("jia")[2] # Variants("jia")[3]
    /\ run[p].case_dir = Variants("jia")[2]

\* the files directly in a dispute-focus directory
ReportFiles(f) ==
  {q \in DOMAIN f : Len(q) >= 2 /\ q[Len(q) - 1] = FOCUS /\ f[q].kind = "file"}

\* this step is the successful end of p's run
Succeeds(p) == run[p].pc = "Writing" /\ run'[p].pc = "Done"

Abs(x) == IF x < 0 THEN -x ELSE x

\* C4 (as stated): every successful run creates a report file of its own,
\* new in the dispute-focus directory, and no step of any run overwrites or
\* deletes a report file that is there: the set of report files only grows,
\* by one file for every successful run.
C4_EachRunAddsOneReport ==
  [][ /\ \A q \in ReportFiles(fs) : q \in ReportFiles(fs') /\ fs'[q] = fs[q]
      /\ \A p \in Procs :
           Succeeds(p) =>
             /\ run[p].focus_file \notin DOMAIN fs
             /\ run[p].focus_file \in ReportFiles(fs')
             /\ Cardinality(ReportFiles(fs')) = Cardinality(ReportFiles(fs)) + 1
    ]_vars

\* C4 (amended): no run deletes a report file, so the set of report files
\* only grows, and by at most one file a step; a successful run leaves its
\* report in the file named with the second of its time stamp, which it
\* creates when there is no file of that name and overwrites otherwise; a
\* report file is overwritten only by a run that took its time stamp in the
\* second the file is named after.
C4_ReportsGrowOverwriteOnSameSecond ==
  [][ /\ \A q \in ReportFiles(fs) : q \in ReportFiles(fs')
      /\ \A q \in ReportFiles(fs) :
           fs'[q] # fs[q] =>
             \E p \in Procs : /\ run[p].pc = "Writing"
                              /\ run'[p].pc \in {"Done", "Raised"}
                              /\ run[p].focus_file = q
                              /\ run[p].stamped = fs[q].at
      /\ Cardinality(ReportFiles(fs')) <= Cardinality(ReportFiles(fs)) + 1
      /\ \A p \in Procs :
           Succeeds(p) =>
             /\ run[p].focus_file \in ReportFiles(fs')
             /\ fs'[run[p].focus_file].doc = run[p].ai_analysis
             /\ fs'[run[p].focus_file].writer = run[p].id
             /\ run[p].focus_file \notin DOMAIN fs
                  <=> Cardinality(ReportFiles(fs')) = Cardinality(ReportFiles(fs)) + 1
    ]_vars

\* two runs have written in the same second: one report file holds the
\* second run's report and the first run's is gone
C4_Witness ==
  \E w1 \in wrote, w2 \in wrote :
    /\ w1.id # w2.id
    /\ w1.file = w2.file
    /\ w1.at = w2.at
    /\ fs[w1.file].writer = w2.id

\* C5: of two successful runs against one case that took their time stamps
\* more than one second apart, the one that writes later writes a file of
\* another name and leaves the other's file as it is.
C5_DistinctReportsWhenSecondsApart ==
  [][ \A p \in Procs :
        Succeeds(p) =>
          \A w \in wrote :
            dirname(w.file) = run[p].focus_dir /\ Abs(run[p].stamped - w.at) > 1 =>
              /\ w.file # run[p].focus_file
              /\ fs'[w.file] = fs[w.file]
    ]_vars

\* two runs have written more than one second apart, one before and one after
\* the minute turned, and both reports are in their files
C5_Witness ==
  \E w1 \in wrote, w2 \in wrote :
    /\ w1.id # w2.id
    /\ dirname(w1.file) = dirname(w2.file)
    /\ w2.at - w1.at > 1
    /\ w1.at < 60 /\ w2.at >= 60
    /\ w1.file # w2.file
    /\ fs[w1.file].writer = w1.id
    /\ fs[w2.file].writer = w2.id

\* C6: a run whose report-writing step (the directory creation or the file
\* write) fails with an I/O error ends aborted and returns False.
C6_WriteFailureReturnsFalse ==
  \A p \in Procs :
    run[p].raised_at \in {"CreatingFocusDir", "Writing"} =>
      run[p].pc = "Aborted" /\ run[p].result = "False"

\* what the code does instead: the error leaves identify_dispute_focus
C6_WriteFailureEscapes ==
  \A p \in Procs :
    run[p].raised_at \in {"CreatingFocusDir", "Writing"} =>
      run[p].pc = "Raised" /\ run[p].result = "raised"

Range(q) == {q[i] : i \in DOMAIN q}

NoDuplicates(q) == Cardinality(Range(q)) = Len(q)

RECURSIVE SumOfLengths(_, _)
SumOfLengths(src, D) ==
  IF D = {} THEN 0
  ELSE LET d == CHOOSE x \in D : TRUE IN Len(src[d]) + SumOfLengths(src, D \ {d})

\* p's run has been through material discovery
Collected(p) ==
  \/ run[p].pc \in {"AssemblingPrompt", "Generating", "Sleeping", "WritingReport",
                    "Writing", "Done"}
  \/ run[p].pc = "Aborted" /\ run[p].reason = "no material files"
  \/ run[p].pc = "Raised" /\ run[p].raised_at = "Writing"

\* C7: with subdirectories in the materials directory, discovery gives one
\* source for every subdirectory that has a .txt or .md file and none for the
\* others, a source lists the .txt and .md files of its subdirectory, each
\* once, and the number of files found is the sum of the sources' numbers;
\* with no subdirectory the one source is the generic one and it lists the
\* .txt and .md files of the materials directory itself.
C7_SourcesPerSubdirectory ==
  \A p \in Procs :
    Collected(p) =>
      LET m == run[p].case_dir \o <<MATERIALS>>
          c == run[p].collected
          subs == {d \in listdir(fs, m) : isdir(fs, m \o <<d>>)}
      IN  /\ IF subs # {}
             THEN /\ DOMAIN c.sources = {d \in subs : TxtMd(fs, m \o <<d>>) # {}}
                  /\ \A d \in DOMAIN c.sources :
                       /\ Range(c.sources[d]) = TxtMd(fs, m \o <<d>>)
                       /\ NoDuplicates(c.sources[d])
             ELSE /\ DOMAIN c.sources = IF TxtMd(fs, m) # {} THEN {GENERIC} ELSE {}
                  /\ \A d \in DOMAIN c.sources :
                       /\ Range(c.sources[d]) = TxtMd(fs, m)
                       /\ NoDuplicates(c.sources[d])
          /\ Len(c.files) = SumOfLengths(c.sources, DOMAIN c.sources)
          /\ Range(c.files) = UNION {Range(c.sources[d]) : d \in DOMAIN c.sources}

\* two .txt files of one party and one .md file of the other: two sources of
\* 2 and 1 files, 3 files in all
C7_Witness ==
  \E p \in Procs :
    /\ Collected(p)
    /\ DOMAIN run[p].collected.sources = {"yuangao", "beigao"}
    /\ Len(run[p].collected.sources["yuangao"]) = 2
    /\ Len(run[p].collected.sources["beigao"]) = 1
    /\ Len(run[p].collected.files) = 3

\* C8 (as stated): read_text_file returns the UTF-8 text when the bytes
\* decode as UTF-8; the GBK text when they do not but decode as GBK; the
\* placeholder that names the file when neither decodes; and on every other
\* error, of the first open or of the second, the placeholder that names the
\* file and carries the error's message.
C8_ReadTextFileCases ==
  reader.pc = "done" =>
    LET n == basename(ReadPath)
        e1 == open_r(fs, ReadPath, reader.io[1])
        e2 == open_r(fs, ReadPath, reader.io[2])
    IN  IF e1 # "ok" THEN reader.result = ReadError(n, e1)
        ELSE IF Utf8Decode(fs[ReadPath].bytes).ok
          THEN reader.result = Text(Utf8Decode(fs[ReadPath].bytes).text)
        ELSE IF e2 # "ok" THEN reader.result = ReadError(n, e2)
        ELSE IF GbkDecode(fs[ReadPath].bytes).ok
          THEN reader.result = Text(GbkDecode(fs[ReadPath].bytes).text)
        ELSE reader.result = Unreadable(n)

\* C8 (amended): read_text_file returns the UTF-8 text when the bytes decode
\* as UTF-8; when they do not, the GBK text if the file can be read again and
\* decodes as GBK, and otherwise - the bytes decode as neither, or the second
\* read raises any error - the placeholder that names the file, without a
\* message; when the first read raises an error other than a decoding error,
\* the placeholder that names the file and carries the error's message.
C8_ReadTextFileFallback ==
  reader.pc = "done" =>
    LET n == basename(ReadPath)
        e1 == open_r(fs, ReadPath, reader.io[1])
        e2 == open_r(fs, ReadPath, reader.io[2])
    IN  IF e1 # "ok" THEN reader.result = ReadError(n, e1)
        ELSE IF Utf8Decode(fs[ReadPath].bytes).ok
          THEN reader.result = Text(Utf8Decode(fs[ReadPath].bytes).text)
        ELSE IF e2 = "ok" /\ GbkDecode(fs[ReadPath].bytes).ok
          THEN reader.result = Text(GbkDecode(fs[ReadPath].bytes).text)
        ELSE reader.result = Unreadable(n)

\* the GBK bytes of U+4E2D, no UTF-8, have been read as that character
C8_Witness ==
  /\ reader.pc = "done"
  /\ isfile(fs, ReadPath)
  /\ fs[ReadPath].bytes = GB
  /\ ~Utf8Decode(GB).ok
  /\ reader.result = Text(<<20013>>)

\* the step of the pipeline a position of the code belongs to
Phase(pc) ==
  CASE pc \in {"ResolvingCase", "CreatingFocusDir"} -> 1
    [] pc \in {"LoadingMethod", "CollectingMaterials"} -> 2
    [] pc = "AssemblingPrompt" -> 3
    [] pc \in {"Generating", "Sleeping"} -> 4
    [] pc \in {"WritingReport", "Writing"} -> 5
    [] pc = "Done" -> 6
    [] pc = "Aborted" -> 7
    [] pc = "Raised" -> 8
    [] OTHER -> 0

\* a step of p's stays in the step of the pipeline, goes to the next, or ends
\* the run with one of `ends`; a new run begins at ResolvingCase
StepOrder(p, ends) ==
  IF run'[p].id # run[p].id
  THEN run[p].pc \in {"idle"} \cup Terminal /\ run'[p].pc = "ResolvingCase"
  ELSE \/ Phase(run'[p].pc) = Phase(run[p].pc)
       \/ Phase(run[p].pc) \in 1..5 /\ Phase(run'[p].pc) = Phase(run[p].pc) + 1
       \/ Phase(run[p].pc) \in 1..5 /\ run'[p].pc \in ends

\* generation is entered with the case resolved and a material file found,
\* and Done with the report written and success returned
StepConditions ==
  \A p \in Procs :
    /\ Phase(run[p].pc) = 4 =>
         /\ isdir(fs, run[p].case_dir)
         /\ run[p].case_dir \in Range(Variants(run[p].case_name))
         /\ Len(run[p].collected.files) >= 1
    /\ run[p].pc = "Done" =>
         /\ run[p].result = "True"
         /\ \E w \in wrote : w.id = run[p].id /\ w.file = run[p].focus_file
         /\ isfile(fs, run[p].focus_file)

\* C9: a run goes through ResolvingCase, CollectingMaterials,
\* AssemblingPrompt, Generating, WritingReport and Done in this order, no step
\* skipped and none gone back to, or leaves a step for Aborted; generation is
\* entered only with the case resolved and a material file found, Done only
\* with the report written; and every run ends, in Done or in Aborted.
C9_OrderedStepsEndDoneOrAborted ==
  /\ [][\A p \in Procs : StepOrder(p, {"Aborted"})]_vars
  /\ [](StepConditions)
  /\ \A p \in Procs : \A i \in 1..MaxRuns :
       (run[p].id = i) ~> (run[p].id = i /\ run[p].pc \in {"Done", "Aborted"})

\* what the code does: the order and the conditions hold of the runs that
\* an error of the directory creation, of the methodology read or of the file
\* write leaves by an exception, too
C9_OrderedStepsEndOrEscape ==
  /\ [][\A p \in Procs : StepOrder(p, {"Aborted", "Raised"})]_vars
  /\ [](StepConditions)

\* C10 (as stated): a step changes nothing that is there, and what it adds
\* is the dispute-focus directory of the case or a report file in it.
C10_OnlyCreatesFocusDirAndReports ==
  [][ /\ \A q \in DOMAIN fs : q \in DOMAIN fs' /\ fs'[q] = fs[q]
      /\ \A q \in DOMAIN fs' \ DOMAIN fs :
           \E p \in Procs :
             /\ run[p].case_dir # None
             /\ \/ q = FocusDirOf(run[p].case_dir) /\ isdir(fs', q)
                \/ dirname(q) = FocusDirOf(run[p].case_dir) /\ isfile(fs', q)
    ]_vars

\* C10 (amended): a step deletes nothing; what it adds is the dispute-focus
\* directory of the case or a file in it; and the one thing it changes is a
\* report file in the dispute-focus directory that a run, writing its report
\* under the name of the same second, overwrites.  The material files and
\* everything else that was there stay as they were.
C10_OnlyFocusDirAndReportsChange ==
  [][ /\ \A q \in DOMAIN fs :
           /\ q \in DOMAIN fs'
           /\ fs'[q] # fs[q] =>
                \E p \in Procs :
                  /\ run[p].pc = "Writing"
                  /\ q = run[p].focus_file
                  /\ dirname(q) = FocusDirOf(run[p].case_dir)
                  /\ isfile(fs, q) /\ isfile(fs', q)
                  /\ fs[q].at = run[p].stamped
      /\ \A q \in DOMAIN fs' \ DOMAIN fs :
           \E p \in Procs :
             /\ run[p].case_dir # None
             /\ \/ q = FocusDirOf(run[p].case_dir) /\ isdir(fs', q)
                \/ dirname(q) = FocusDirOf(run[p].case_dir) /\ isfile(fs', q)
      /\ \A q \in DOMAIN fs0 :
           Len(q) < 2 \/ q[Len(q) - 1] # FOCUS => q \in DOMAIN fs' /\ fs'[q] = fs0[q]
    ]_vars

\* a run has made the dispute-focus directory and written a report in it,
\* next to the material files that were there
C10_Witness ==
  \E w \in wrote :
    /\ w.file \notin DOMAIN fs0
    /\ dirname(w.file) \notin DOMAIN fs0
    /\ isdir(fs, dirname(w.file))
    /\ fs[w.file].doc = w.doc
    /\ \E q \in DOMAIN fs0 : isfile(fs0, q) /\ Under(q, dirname(dirname(w.file))) /\ fs[q] = fs0[q]

\* p's run has aborted before generation: the case, the methodology file or
\* the materials directory was not found, or no material file was
AbortedEarly(p) ==
  /\ run[p].pc = "Aborted"
  /\ run[p].reason \in {"case not found", "methodology file not found",
                        "materials directory not found", "no material files"}

\* C11: the filesystem changes only in the WritingReport step of a run - no
\* step that a run takes before it changes anything - and a run that has
\* aborted before generation (here the first run, of the one process there
\* is) has left the filesystem as it was, without a new dispute-focus
\* directory.
C11_FocusDirOnlyInWritingReport ==
  /\ [][\A p \in Procs :
          run'[p] # run[p] /\ run[p].pc \notin {"WritingReport", "Writing"} => fs' = fs]_vars
  /\ [](\A p \in Procs :
          users = {1} /\ nruns = 1 /\ AbortedEarly(p) =>
            /\ fs = fs0
            /\ run[p].case_dir # None =>
                 (exists(fs, FocusDirOf(run[p].case_dir))
                    => exists(fs0, FocusDirOf(run[p].case_dir))))

\* what read_text_file gives for a material file
ReadOf(q) == read_text_file(fs, q, <<"ok", "ok">>)

\* the label of the records of material file q of p's run: the party's
\* subdirectory, or "材料" for a file of the materials directory itself
LabelOf(p, q) ==
  IF dirname(q) = run[p].case_dir \o <<MATERIALS>> THEN "cailiao" ELSE basename(dirname(q))

\* C12 (as stated): when a run has reached generation, the list handed to
\* analyze_with_ai has one record for every material file found, in their
\* order, with the file's text or placeholder: as many records as files, and
\* at least one.
C12_OneRecordPerFile ==
  \A p \in Procs :
    run[p].invoked =>
      LET files == run[p].collected.files
          recs == run[p].prompt.material_content
      IN  /\ Len(recs) = Len(files)
          /\ Len(recs) >= 1
          /\ \A i \in 1..Len(files) :
               /\ recs[i].name = basename(files[i])
               /\ recs[i].source = LabelOf(p, files[i])
               /\ recs[i].content = ReadOf(files[i])

\* C12 (amended): when a run has reached generation, at least one material
\* file was found, and the list handed to analyze_with_ai has one record, in
\* their order, for every file found of which read_text_file gave a
\* non-empty string - the text, or the placeholder when reading failed - and
\* none for a file that is empty; there are at most as many records as files,
\* and none when all files found are empty.
C12_OneRecordPerNonEmptyFile ==
  \A p \in Procs :
    run[p].invoked =>
      LET files == run[p].collected.files
          recs == run[p].prompt.material_content
          NonEmpty(q) == Truthy(ReadOf(q))
          kept == SelectSeq(files, NonEmpty)
      IN  /\ Len(files) >= 1
          /\ recs = run[p].collected.contents
          /\ Len(recs) = Len(kept)
          /\ Len(recs) <= Len(files)
          /\ \A i \in 1..Len(kept) :
               /\ recs[i].name = basename(kept[i])
               /\ recs[i].source = LabelOf(p, kept[i])
               /\ recs[i].content = ReadOf(kept[i])
               /\ recs[i].content # Text(<<>>)

\* a run whose two files could not be read has handed over the two
\* placeholders and ended with success
C12_Witness ==
  \E p \in Procs :
    /\ run[p].invoked
    /\ run[p].pc = "Done"
    /\ Len(run[p].collected.files) = 2
    /\ Len(run[p].prompt.material_content) = 2
    /\ {run[p].prompt.material_content[i].content.kind : i \in 1..2} = {"unreadable", "read_error"}

\* C13: with a subdirectory in the materials directory the files collected
\* are those of the subdirectories, the records are theirs, and no .txt or
\* .md file of the materials directory itself is collected, so that the run
\* aborts for want of materials when the subdirectories have none, whatever
\* lies at the top; with no subdirectory the files collected are the top-level
\* ones.
C13_SingleAndMultiExclusive ==
  \A p \in Procs :
    Collected(p) =>
      LET m == run[p].case_dir \o <<MATERIALS>>
          c == run[p].collected
          subs == {q \in Children(fs, m) : isdir(fs, q)}
      IN  IF subs # {}
          THEN /\ Range(c.files) = UNION {TxtMd(fs, d) : d \in subs}
               /\ Range(c.files) \cap TxtMd(fs, m) = {}
               /\ GENERIC \notin DOMAIN c.sources
               /\ \A i \in 1..Len(c.contents) :
                    m \o <<c.contents[i].source>> \in subs
               /\ (\A d \in subs : TxtMd(fs, d) = {}) =>
                    /\ run[p].pc = "Aborted"
                    /\ run[p].reason = "no material files"
                    /\ ~run[p].invoked
          ELSE /\ Range(c.files) = TxtMd(fs, m)
               /\ DOMAIN c.sources \subseteq {GENERIC}
               /\ \A i \in 1..Len(c.contents) : c.contents[i].source = "cailiao"

\* a run has aborted for want of materials with a .txt file at the top of a
\* materials directory whose one subdirectory has no .txt or .md file
C13_Witness ==
  \E p \in Procs :
    LET m == run[p].case_dir \o <<MATERIALS>>
    IN  /\ AbortedEarly(p)
        /\ run[p].reason = "no material files"
        /\ \E q \in Children(fs, m) : isdir(fs, q)
        /\ TxtMd(fs, m) # {}
        /\ run[p].collected.files = <<>>

\* what get_case_path gives for name n in filesystem f
Resolve(f, n) == get_case_path(f, base_dir, cases_dir, n)

\* C14: a create_case call of a name that get_case_path resolves to a case
\* directory returns failure and changes nothing, so that a name that
\* resolves to a directory resolves to the same after the call; and after a
\* create_case call that returned success the name resolves to the directory
\* the call has made.
C14_CreateCaseKeepsResolution ==
  [][ shell'.op = "create_case" =>
        LET n == shell'.name
            new_case_dir == cases_dir \o <<CASE_PREFIX \o n>>
        IN  /\ n # "" /\ Resolve(fs, n) # None => shell'.result = "False" /\ fs' = fs
            /\ \A m \in CallNames \ {""} :
                 Resolve(fs, m) # None => Resolve(fs', m) = Resolve(fs, m)
            /\ shell'.result = "True" =>
                 /\ ~exists(fs, new_case_dir)
                 /\ isdir(fs', new_case_dir)
                 /\ Resolve(fs', n) = new_case_dir
    ]_vars

\* what the code does: create_case looks at the path with the prefix alone;
\* it returns failure and changes nothing when that path is there, changes
\* nothing that is there in any case, and after success the name resolves to
\* the directory made
C14_CreateCaseChecksPrefixedPath ==
  [][ shell'.op = "create_case" =>
        LET n == shell'.name
            new_case_dir == cases_dir \o <<CASE_PREFIX \o n>>
        IN  /\ exists(fs, new_case_dir) => shell'.result = "False" /\ fs' = fs
            /\ \A q \in DOMAIN fs : q \in DOMAIN fs' /\ fs'[q] = fs[q]
            /\ shell'.result = "True" =>
                 /\ ~exists(fs, new_case_dir)
                 /\ isdir(fs', new_case_dir)
                 /\ Resolve(fs', n) = new_case_dir
    ]_vars

====
